---- MODULE Spec2Model ----
(***************************************************************************)
(* Model of the Hill cipher (src/hills.py) and the Vigenere cipher         *)
(* (src/vigenere.py) with their known-plaintext attacks.                   *)
(*                                                                         *)
(* Strings are sequences of character codes (ord values); a key matrix is  *)
(* a pair of rows <<<<a, b>>, <<c, d>>>>.  Both source files define        *)
(* mod_26, encrypt, decrypt and brute_force; the Hill versions carry the   *)
(* prefix hills_ and the Vigenere versions the prefix vigenere_.           *)
(***************************************************************************)
EXTENDS Integers, Sequences, FiniteSets, TLC

VARIABLES
    pc,              \* position of the run
    K,               \* hills.py: the key matrix handed to the function under run
    plain_text,      \* the plain text argument
    cipher_text,     \* the cipher text (argument or result of encrypt)
    decrypted_text,  \* result of decrypt
    valid,           \* result of is_valid_key(K)
    inv,             \* result of invert(K)
    inv2,            \* result of invert(invert(K))
    i, j, k, l,      \* brute_force: the loop counters (hills.py i, j, k, l;
                     \* vigenere.py column i, letter j, text index k)
    decrypts,        \* hills.py brute_force: candidates handed to decrypt so far
    found_key,       \* brute_force: found_key, at the end the return value
    keyword,         \* vigenere.py: the keyword
    ic,              \* vigenere.py: return value of calculate_IC
    key_lengths,     \* vigenere.py: return value of kasiski_test
    dists,           \* vigenere.py kasiski_test: the list distances
    r_est,           \* vigenere.py brute_force: r, the return value of _IC_test
    probable_lengths, \* vigenere.py brute_force: the object the outer loop iterates
    len_idx,         \* vigenere.py brute_force: position of the outer loop in it
    sort             \* vigenere.py brute_force: sort, the sorted running column

vars == <<pc, K, plain_text, cipher_text, decrypted_text, valid, inv, inv2,
          i, j, k, l, decrypts, found_key, keyword, ic, key_lengths,
          dists, r_est, probable_lengths, len_idx, sort>>

hillVars == <<K, valid, inv, inv2>>
loopVars == <<i, j, k, l, decrypts, found_key>>
attackVars == <<dists, r_est, probable_lengths, len_idx, sort>>
vigVars  == <<keyword, ic, key_lengths, attackVars>>

-----------------------------------------------------------------------------
(* Program constants *)

N == 2
NUM_LETTERS == 26
ASCII_OFFSET == 97
MIN_BOUND == 0
MAX_BOUND == 25

\* What a call ends with: a returned value, Python's None, or an exception
Value(v) == [kind |-> "value", val |-> v]
None == [kind |-> "None", val |-> <<>>]
IndexError == [kind |-> "IndexError", val |-> <<>>]
TypeError == [kind |-> "TypeError", val |-> <<>>]
ZeroDivisionError == [kind |-> "ZeroDivisionError", val |-> <<>>]

\* INV_MOD_26[r] of the source is INV_MOD_26[r + 1] here (sequences start at 1)
INV_MOD_26 ==
    << -1, 1, -1, 9, -1, 21, -1, 15, -1, 3, -1, 19, -1, -1, -1, 7, -1, 23,
       -1, 11, -1, 5, -1, 17, -1, 25 >>

mod_26(x) == x % NUM_LETTERS

\* The character code of a letter
FILL_CHAR == 120
Chr(sym) == sym + ASCII_OFFSET

-----------------------------------------------------------------------------
(* hills.py *)

Matrix(a, b, c, d) == <<<<a, b>>, <<c, d>>>>

\* The exact determinant ad - bc
Det(M) == M[1][1] * M[2][2] - M[1][2] * M[2][1]

\* np.linalg.det(M): a float, the exact determinant "whole" plus a rounding
\* error of sign "err" and of magnitude far below 1/2 (numpy computes the
\* determinant from an LU factorisation as sign * exp(sum of log|u_ii|)).
np_linalg_det(M, e) == [whole |-> Det(M), err |-> e]

\* The rounding directions a build can produce for np.linalg.det(M): an
\* exactly zero determinant comes out as 0.0, any other one may be rounded
\* in either direction.
RoundingErrors(M) == IF Det(M) = 0 THEN {0} ELSE {-1, 0, 1}

\* Python's f % 26 on a float: the result lies in [0, 26]; a value just
\* below a multiple of 26 stays just below 26.
float_mod_26(f) ==
    IF f.whole % NUM_LETTERS = 0 /\ f.err < 0
        THEN [whole |-> NUM_LETTERS, err |-> -1]
        ELSE [whole |-> f.whole % NUM_LETTERS, err |-> f.err]

\* int(round(f, 0)): the error is far below 1/2
int_round(f) == f.whole

is_valid_key_no_upper_bound(M) ==
    LET v == int_round(np_linalg_det(M, 0)) % NUM_LETTERS
    IN  /\ \A r \in 1..N : \A c \in 1..N : ~(M[r][c] < MIN_BOUND)
        /\ ~(v = 0 \/ INV_MOD_26[v + 1] = -1)

is_valid_key(M) ==
    LET v == int_round(np_linalg_det(M, 0)) % NUM_LETTERS
    IN  /\ \A r \in 1..N : \A c \in 1..N :
              ~(M[r][c] < MIN_BOUND \/ M[r][c] > MAX_BOUND)
        /\ ~(v = 0 \/ INV_MOD_26[v + 1] = -1)

extend_text(text) ==
    LET pt_len == Len(text)
        fill_amount == pt_len % N
    IN  IF fill_amount # 0
            THEN text \o [x \in 1..fill_amount |-> FILL_CHAR]
            ELSE text

\* One block: the product of matrix M and the N symbols of text that start
\* at 0-based offset at, reduced mod 26 and turned back into characters.
hills_block(text, M, at) ==
    [r \in 1..N |->
        Chr(mod_26(M[r][1] * (text[at + 1] - ASCII_OFFSET)
                   + M[r][2] * (text[at + 2] - ASCII_OFFSET)))]

RECURSIVE hills_blocks(_, _, _)
hills_blocks(text, M, at) ==
    IF at >= Len(text) THEN <<>>
    ELSE hills_block(text, M, at) \o hills_blocks(text, M, at + N)

hills_encrypt(text, M) == hills_blocks(extend_text(text), M, 0)

\* vec @ K in place of K @ vec: the product with the transposed matrix
hills_decrypt_transposed(text, M) ==
    hills_blocks(text, Matrix(M[1][1], M[2][1], M[1][2], M[2][2]), 0)

hills_decrypt(text, M) == hills_blocks(text, M, 0)

invert_adjugate_not_negated(M, e) ==
    LET determinant == float_mod_26(np_linalg_det(M, e))
        idx == int_round(determinant)
        mul_inv == INV_MOD_26[idx + 1]
    IN  IF determinant.whole = 0 /\ determinant.err = 0 THEN None
        ELSE IF idx >= Len(INV_MOD_26) THEN IndexError
        ELSE IF mul_inv = -1 THEN None
        ELSE Value(Matrix(mod_26(mul_inv * M[2][2]), mod_26(mul_inv * M[1][2]),
                          mod_26(mul_inv * M[2][1]), mod_26(mul_inv * M[1][1])))

\* INV_MOD_26[26] is past the end of the table: Python raises IndexError
invert(M, e) ==
    LET determinant == float_mod_26(np_linalg_det(M, e))
        idx == int_round(determinant)
        mul_inv == INV_MOD_26[idx + 1]
        a == M[1][1]
        b == M[1][2]
        c == M[2][1]
        d == M[2][2]
    IN  IF determinant.whole = 0 /\ determinant.err = 0 THEN None
        ELSE IF idx >= Len(INV_MOD_26) THEN IndexError
        ELSE IF mul_inv = -1 THEN None
        ELSE Value(Matrix(mod_26(mul_inv * d), mod_26(mul_inv * (-b)),
                          mod_26(mul_inv * (-c)), mod_26(mul_inv * a)))

-----------------------------------------------------------------------------
(* Values the variables of the other runs keep *)

ZeroMatrix == Matrix(0, 0, 0, 0)
HillIdle == K = ZeroMatrix /\ valid = FALSE /\ inv = None /\ inv2 = None
TextIdle == plain_text = <<>> /\ cipher_text = <<>> /\ decrypted_text = <<>>
LoopIdle == i = 0 /\ j = 0 /\ k = 0 /\ l = 0 /\ decrypts = 0 /\ found_key = None
AttackIdle ==
    /\ dists = <<>> /\ r_est = None /\ probable_lengths = None
    /\ len_idx = 0 /\ sort = <<>>
VigIdle  == keyword = <<>> /\ ic = None /\ key_lengths = None /\ AttackIdle
textVars == <<plain_text, cipher_text, decrypted_text>>

-----------------------------------------------------------------------------
(* SpecKey: is_valid_key and invert applied to a key matrix *)

\* Entries of the matrices tried: in range, and -1 and 26 out of range
MaxKeyEntry == 7
KeyEntries == (-1 .. MaxKeyEntry) \cup {13, MAX_BOUND, MAX_BOUND + 1}
KeyMatrices ==
    {Matrix(a, b, c, d) : a \in KeyEntries, b \in KeyEntries,
                          c \in KeyEntries, d \in KeyEntries}

KeyInit ==
    /\ pc = "start"
    /\ K \in KeyMatrices
    /\ valid = FALSE /\ inv = None /\ inv2 = None
    /\ TextIdle /\ LoopIdle /\ VigIdle

KeyValidate ==
    /\ pc = "start"
    /\ valid' = is_valid_key(K)
    /\ pc' = "validated"
    /\ UNCHANGED <<K, inv, inv2, textVars, loopVars, vigVars>>

KeyInvert ==
    /\ pc = "validated"
    /\ \E e \in RoundingErrors(K) : inv' = invert(K, e)
    /\ pc' = "inverted"
    /\ UNCHANGED <<K, valid, inv2, textVars, loopVars, vigVars>>

KeyInvertAgain ==
    /\ pc = "inverted"
    /\ inv.kind = "value"
    /\ \E e \in RoundingErrors(inv.val) : inv2' = invert(inv.val, e)
    /\ pc' = "done"
    /\ UNCHANGED <<K, valid, inv, textVars, loopVars, vigVars>>

KeyNext == KeyValidate \/ KeyInvert \/ KeyInvertAgain

SpecKey == KeyInit /\ [][KeyNext]_vars

\* What the claims about keys are stated with
RECURSIVE Gcd(_, _)
Gcd(a, b) == IF b = 0 THEN a ELSE Gcd(b, a % b)

InRange(M) ==
    \A r \in 1..N : \A c \in 1..N : M[r][c] \in MIN_BOUND..MAX_BOUND

MatMulMod26(A, B) ==
    [r \in 1..N |-> [c \in 1..N |->
        (A[r][1] * B[1][c] + A[r][2] * B[2][c]) % NUM_LETTERS]]

Identity == Matrix(1, 0, 0, 1)
ExampleKey == Matrix(3, 3, 2, 5)

\* C4: for every valid key K, invert(K) is a matrix with entries in [0,25],
\* K * invert(K) mod 26 is the identity, and invert(invert(K)) is K.
C4_InverseCorrectness ==
    /\ (pc \in {"inverted", "done"} /\ valid) =>
            /\ inv.kind = "value"
            /\ InRange(inv.val)
            /\ MatMulMod26(K, inv.val) = Identity
    /\ (pc = "inverted" /\ valid) =>
            \A e \in RoundingErrors(inv.val) : invert(inv.val, e) = Value(K)
    /\ (pc = "done" /\ valid) => inv2 = Value(K)

C4_Witness ==
    /\ pc = "done" /\ valid /\ K = ExampleKey
    /\ inv = Value(Matrix(15, 17, 20, 9)) /\ inv2 = Value(K)

\* C5: is_valid_key(K) is true exactly when all four entries are in [0,25]
\* and (ad - bc) mod 26 is coprime to 26; it is false for a determinant
\* congruent to 0, to an even residue or to 13, and true for [[3,3],[2,5]].
C5_KeyValidity ==
    pc # "start" =>
        /\ valid = (InRange(K) /\ Gcd(Det(K) % NUM_LETTERS, NUM_LETTERS) = 1)
        /\ ((Det(K) % NUM_LETTERS) % 2 = 0 \/ Det(K) % NUM_LETTERS = 13) => ~valid
        /\ K = ExampleKey => valid

C5_Witness ==
    pc = "validated" /\ K = ExampleKey /\ valid

\* C7: for every matrix M with entries in [0,25], invert(M) never raises and
\* returns None exactly when det(M) mod 26 has no inverse mod 26, that is
\* exactly when is_valid_key(M) is false.
C7_NoInverseIsNone ==
    (pc \in {"inverted", "done"} /\ InRange(K)) =>
        /\ inv.kind \in {"None", "value"}
        /\ (inv = None) = (Gcd(Det(K) % NUM_LETTERS, NUM_LETTERS) # 1)
        /\ (inv = None) = ~valid

-----------------------------------------------------------------------------
(* SpecHill: main of hills.py up to the encryption, then the decryption of  *)
(* the cipher text with the inverted key                                    *)

MaxPlainLen == 3
MaxHillEntry == 2
\* 'a', 'b', 'x', 'z'
PlainChars == {97, 98, 120, 122}
HillEntries == (MIN_BOUND .. MaxHillEntry) \cup {MAX_BOUND}
HillMatrices ==
    {Matrix(a, b, c, d) : a \in HillEntries, b \in HillEntries,
                          c \in HillEntries, d \in HillEntries}

RECURSIVE Texts(_, _)
Texts(chars, n) ==
    IF n = 0 THEN {<<>>}
    ELSE LET shorter == Texts(chars, n - 1)
         IN  shorter \cup {Append(t, ch) : t \in {u \in shorter : Len(u) = n - 1},
                                           ch \in chars}

HillInit ==
    /\ pc = "start"
    /\ K \in HillMatrices
    /\ plain_text \in Texts(PlainChars, MaxPlainLen)
    /\ cipher_text = <<>> /\ decrypted_text = <<>>
    /\ valid = FALSE /\ inv = None /\ inv2 = None
    /\ LoopIdle /\ VigIdle

\* main: an invalid key ends the program before anything is encrypted
HillValidate ==
    /\ pc = "start"
    /\ valid' = is_valid_key(K)
    /\ pc' = IF is_valid_key(K) THEN "validated" ELSE "rejected"
    /\ UNCHANGED <<K, inv, inv2, textVars, loopVars, vigVars>>

HillEncrypt ==
    /\ pc = "validated"
    /\ cipher_text' = hills_encrypt(plain_text, K)
    /\ pc' = "encrypted"
    /\ UNCHANGED <<hillVars, plain_text, decrypted_text, loopVars, vigVars>>

HillInvert ==
    /\ pc = "encrypted"
    /\ \E e \in RoundingErrors(K) : inv' = invert(K, e)
    /\ pc' = "inverted"
    /\ UNCHANGED <<K, valid, inv2, textVars, loopVars, vigVars>>

HillDecrypt ==
    /\ pc = "inverted"
    /\ inv.kind = "value"
    /\ decrypted_text' = hills_decrypt(cipher_text, inv.val)
    /\ pc' = "done"
    /\ UNCHANGED <<hillVars, plain_text, cipher_text, loopVars, vigVars>>

HillNext == HillValidate \/ HillEncrypt \/ HillInvert \/ HillDecrypt

SpecHill == HillInit /\ [][HillNext]_vars

\* C1: for every valid key K and lowercase plain text P,
\* decrypt(encrypt(P, K), invert(K)) is P with one 'x' appended when len(P)
\* is odd, and P itself when len(P) is even.
C1_HillRoundTrip ==
    /\ (pc = "inverted") => inv.kind = "value"
    /\ (pc = "done") =>
            decrypted_text =
                IF Len(plain_text) % 2 = 1 THEN Append(plain_text, 120)
                ELSE plain_text

C1_Witness ==
    /\ pc = "done" /\ K = Matrix(1, 2, 25, 1)
    /\ plain_text = <<122, 97, 120>>
    /\ cipher_text # <<122, 97, 120, 120>>
    /\ decrypted_text = <<122, 97, 120, 120>>

-----------------------------------------------------------------------------
(* SpecBrute: brute_force of hills.py, one step per candidate matrix        *)

\* Decryption keys the search reaches early, and the encryption keys that
\* belong to them
BruteDecryptKeys ==
    {Matrix(0, 1, 1, 0), Matrix(0, 1, 1, 1), Matrix(0, 1, 3, 2),
     Matrix(0, 3, 1, 0), Matrix(0, 5, 7, 2), Matrix(0, 1, 25, 2),
     Matrix(0, 1, 5, 7), Matrix(0, 1, 9, 13), Matrix(0, 1, 17, 4),
     Matrix(0, 1, 23, 25), Matrix(0, 7, 1, 0), Matrix(1, 0, 0, 1)}
BruteKeys == {invert(D, 0).val : D \in BruteDecryptKeys}

\* "", "b", "he", "zz", "abc", "abcx", "help"
BrutePlain ==
    {<<>>, <<98>>, <<104, 101>>, <<122, 122>>, <<97, 98, 99>>,
     <<97, 98, 99, 120>>, <<104, 101, 108, 112>>}

\* main: cipher_text = encrypt(plain_text, key), plain_text extended
EncryptedInputs ==
    {<<hills_encrypt(P, M), extend_text(P)>> : M \in BruteKeys, P \in BrutePlain}

\* A pair no key matrix relates: "aa" is decrypted to "aa" by every matrix
UnmatchedInputs == {<<<<97, 97>>, <<97, 98>>>>}

\* The candidate of the iteration about to run; i = NUM_LETTERS: loops over
candidate == Matrix(i, j, k, l)

\* The counters of the next iteration of the four nested loops
next_candidate_k_fastest(a, b, c, d) ==
    IF c + 1 < NUM_LETTERS THEN <<a, b, c + 1, d>>
    ELSE IF d + 1 < NUM_LETTERS THEN <<a, b, 0, d + 1>>
    ELSE IF b + 1 < NUM_LETTERS THEN <<a, b + 1, 0, 0>>
    ELSE <<a + 1, 0, 0, 0>>

next_candidate(a, b, c, d) ==
    IF d + 1 < NUM_LETTERS THEN <<a, b, c, d + 1>>
    ELSE IF c + 1 < NUM_LETTERS THEN <<a, b, c + 1, 0>>
    ELSE IF b + 1 < NUM_LETTERS THEN <<a, b + 1, 0, 0>>
    ELSE <<a + 1, 0, 0, 0>>

\* decrypted_text == plain_text compared on the first block only
brute_match_first_block(text, M, known) ==
    IF Len(text) < N \/ Len(known) < N THEN TRUE
    ELSE SubSeq(hills_decrypt(text, M), 1, N) = SubSeq(known, 1, N)

brute_match(text, M, known) == hills_decrypt(text, M) = known

BruteInit ==
    /\ pc = "loop"
    /\ \E input \in EncryptedInputs \cup UnmatchedInputs :
            cipher_text = input[1] /\ plain_text = input[2]
    /\ decrypted_text = <<>>
    /\ HillIdle /\ LoopIdle /\ VigIdle

BruteStep ==
    LET n == next_candidate(i, j, k, l)
    IN  /\ i' = n[1] /\ j' = n[2] /\ k' = n[3] /\ l' = n[4]
        /\ pc' = "loop"
        /\ UNCHANGED <<found_key, valid, inv, inv2, plain_text, cipher_text, vigVars>>

\* The candidate is not a valid key: nothing is decrypted
BruteSkip ==
    /\ pc = "loop" /\ i < NUM_LETTERS
    /\ K' = candidate
    /\ ~is_valid_key(candidate)
    /\ UNCHANGED <<decrypts, decrypted_text>>
    /\ BruteStep

\* The candidate is valid and does not decrypt to the known plain text
BruteMismatch ==
    /\ pc = "loop" /\ i < NUM_LETTERS
    /\ K' = candidate
    /\ is_valid_key(candidate)
    /\ decrypted_text' = hills_decrypt(cipher_text, candidate)
    /\ decrypts' = decrypts + 1
    /\ ~brute_match(cipher_text, candidate, plain_text)
    /\ BruteStep

\* The candidate is valid and decrypts to the known plain text: return K
BruteMatch ==
    /\ pc = "loop" /\ i < NUM_LETTERS
    /\ K' = candidate
    /\ is_valid_key(candidate)
    /\ decrypted_text' = hills_decrypt(cipher_text, candidate)
    /\ decrypts' = decrypts + 1
    /\ brute_match(cipher_text, candidate, plain_text)
    /\ found_key' = Value(candidate)
    /\ pc' = "done"
    /\ UNCHANGED <<i, j, k, l, valid, inv, inv2, plain_text, cipher_text, vigVars>>

\* The loops are over: return None
BruteExhausted ==
    /\ pc = "loop" /\ i = NUM_LETTERS
    /\ found_key' = None
    /\ pc' = "done"
    /\ UNCHANGED <<hillVars, textVars, i, j, k, l, decrypts, vigVars>>

BruteNext == BruteSkip \/ BruteMismatch \/ BruteMatch \/ BruteExhausted

SpecBrute == BruteInit /\ [][BruteNext]_vars

\* What the claims about the key search are stated with
FromEncryption == <<cipher_text, plain_text>> \in EncryptedInputs

\* Place of a matrix in the row-major lexicographic order, l fastest
Index(a, b, c, d) ==
    ((a * NUM_LETTERS + b) * NUM_LETTERS + c) * NUM_LETTERS + d

Letters == 0 .. (NUM_LETTERS - 1)

Decrypts(M) == is_valid_key(M) /\ hills_decrypt(cipher_text, M) = plain_text

\* C3: with C = encrypt(P, K) for a valid key K, brute_force(C, extend_text(P))
\* never returns None; it returns a valid matrix that decrypts C to
\* extend_text(P).
C3_BruteForceFinds ==
    (pc = "done" /\ FromEncryption) =>
        /\ found_key.kind = "value"
        /\ is_valid_key(found_key.val)
        /\ hills_decrypt(cipher_text, found_key.val) = plain_text

\* "abcx" under the key [[8,9],[1,0]], whose inverse is [[0,1],[3,2]]
C3_Witness ==
    /\ pc = "done"
    /\ plain_text = <<97, 98, 99, 120>>
    /\ cipher_text = hills_encrypt(plain_text, Matrix(8, 9, 1, 0))
    /\ found_key = Value(Matrix(0, 1, 3, 2))

C6_Returned ==
    pc = "done" =>
        /\ found_key.kind = "value" =>
              LET F == found_key.val
              IN  /\ Decrypts(F)
                  /\ F = candidate
                  /\ \A a \in 0 .. F[1][1] : \A b \in Letters :
                     \A c \in Letters : \A d \in Letters :
                        Index(a, b, c, d) < Index(F[1][1], F[1][2], F[2][1], F[2][2])
                            => ~Decrypts(Matrix(a, b, c, d))
        /\ (found_key = None) =
              ~(\E a \in Letters : \E b \in Letters :
                \E c \in Letters : \E d \in Letters : Decrypts(Matrix(a, b, c, d)))

C6_Step ==
    /\ pc = "loop"
    /\ (pc' = "loop") =>
            /\ Index(i', j', k', l') = Index(i, j, k, l) + 1
            /\ ~Decrypts(candidate)
    /\ decrypts' = decrypts + (IF is_valid_key(candidate) THEN 1 ELSE 0)
    /\ (i < NUM_LETTERS) => K' = candidate

\* C6: brute_force examines the candidates (i, j, k, l) in row-major
\* lexicographic order with l fastest, decrypts with the valid ones only,
\* returns the first valid matrix that decrypts the cipher text to the known
\* plain text and examines nothing after it; it returns None exactly when no
\* valid matrix of the 26^4 decrypts the cipher text to the plain text.
C6_FirstMatch == [](C6_Returned) /\ [][C6_Step]_vars

C6_Witness ==
    /\ pc = "done" /\ found_key = None
    /\ i = NUM_LETTERS /\ K = Matrix(25, 25, 25, 25)
    /\ decrypts = 157248

-----------------------------------------------------------------------------
(* vigenere.py: encrypt and decrypt *)

\* key[i % key_length] for the 0-based position at
key_char(key, at) == key[(at % Len(key)) + 1]

vigenere_encrypt_single_offset(text, key) ==
    [p \in 1..Len(text) |->
        mod_26(text[p] + key_char(key, p - 1) - ASCII_OFFSET) + ASCII_OFFSET]

vigenere_encrypt(text, key) ==
    [p \in 1..Len(text) |->
        mod_26(text[p] + key_char(key, p - 1) - 2 * ASCII_OFFSET) + ASCII_OFFSET]

vigenere_decrypt_not_cyclic(text, key) ==
    [p \in 1..Len(text) |-> mod_26(text[p] - key[1]) + ASCII_OFFSET]

vigenere_decrypt(text, key) ==
    [p \in 1..Len(text) |->
        mod_26(text[p] - key_char(key, p - 1)) + ASCII_OFFSET]

-----------------------------------------------------------------------------
(* SpecVig: main of vigenere.py encrypts; the cipher text is decrypted with *)
(* the same keyword                                                         *)

MaxVigLen == 3
MaxVigKeyLen == 2
\* 'a', 'b', 'n', 'z'
VigChars == {97, 98, 110, 122}
\* "attackatdawn", "lemon", "lxfopvefrnhr"
AttackAtDawn == <<97, 116, 116, 97, 99, 107, 97, 116, 100, 97, 119, 110>>
Lemon == <<108, 101, 109, 111, 110>>
Lxfopvefrnhr == <<108, 120, 102, 111, 112, 118, 101, 102, 114, 110, 104, 114>>

VigInit ==
    /\ pc = "start"
    /\ plain_text \in Texts(VigChars, MaxVigLen) \cup {AttackAtDawn}
    /\ keyword \in (Texts(VigChars, MaxVigKeyLen) \ {<<>>}) \cup {Lemon}
    /\ cipher_text = <<>> /\ decrypted_text = <<>>
    /\ ic = None /\ key_lengths = None /\ AttackIdle
    /\ HillIdle /\ LoopIdle

VigEncrypt ==
    /\ pc = "start"
    /\ cipher_text' = vigenere_encrypt(plain_text, keyword)
    /\ pc' = "encrypted"
    /\ UNCHANGED <<hillVars, loopVars, vigVars, plain_text, decrypted_text>>

VigDecrypt ==
    /\ pc = "encrypted"
    /\ decrypted_text' = vigenere_decrypt(cipher_text, keyword)
    /\ pc' = "done"
    /\ UNCHANGED <<hillVars, loopVars, vigVars, plain_text, cipher_text>>

VigNext == VigEncrypt \/ VigDecrypt

SpecVig == VigInit /\ [][VigNext]_vars

\* C2: for every keyword K of length >= 1 and lowercase plain text P,
\* decrypt(encrypt(P, K), K) is P.
C2_VigenereRoundTrip ==
    pc = "done" => decrypted_text = plain_text

C2_Witness ==
    /\ pc = "done"
    /\ plain_text = <<122, 110, 98>> /\ keyword = <<110, 122>>
    /\ cipher_text = <<109, 109, 111>>
    /\ decrypted_text = plain_text

\* The symbol (0..25) of a lowercase letter
Sym(ch) == ch - ASCII_OFFSET

\* C8: encrypt(P, K) has the length of P and its symbol at every position p
\* is (P[p] + K[p mod len(K)]) mod 26; encrypt("attackatdawn", "lemon") is
\* "lxfopvefrnhr".
C8_PositionwiseShift ==
    pc # "start" =>
        /\ Len(cipher_text) = Len(plain_text)
        /\ \A p \in 0 .. (Len(plain_text) - 1) :
              /\ cipher_text[p + 1] \in 97..122
              /\ Sym(cipher_text[p + 1]) =
                    (Sym(plain_text[p + 1]) + Sym(keyword[(p % Len(keyword)) + 1]))
                        % NUM_LETTERS
        /\ (plain_text = AttackAtDawn /\ keyword = Lemon)
              => cipher_text = Lxfopvefrnhr

C8_Witness ==
    /\ pc = "encrypted"
    /\ plain_text = AttackAtDawn /\ keyword = Lemon
    /\ cipher_text = Lxfopvefrnhr

-----------------------------------------------------------------------------
(* vigenere.py: frequency analysis and index of coincidence *)

SPACE == 32

\* str.replace(' ', '')
RECURSIVE remove_spaces(_)
remove_spaces(text) ==
    IF text = <<>> THEN <<>>
    ELSE IF Head(text) = SPACE THEN remove_spaces(Tail(text))
    ELSE <<Head(text)>> \o remove_spaces(Tail(text))

\* str.lower() on ASCII: 'A'..'Z' become 'a'..'z'
lower(text) ==
    [p \in 1..Len(text) |->
        IF text[p] \in 65..90 THEN text[p] + 32 ELSE text[p]]

\* char in ALPHABET
in_ALPHABET(ch) == ch \in ASCII_OFFSET .. (ASCII_OFFSET + NUM_LETTERS - 1)

\* frequency_array[c] of the source is analyze_frequency(text)[c + 1]
analyze_frequency(text) ==
    [c \in 1..NUM_LETTERS |->
        Cardinality({p \in 1..Len(text) :
            in_ALPHABET(text[p]) /\ text[p] - ASCII_OFFSET = c - 1})]

RECURSIVE sum_pairs(_, _)
sum_pairs(frequency_array, upto) ==
    IF upto = 0 THEN 0
    ELSE sum_pairs(frequency_array, upto - 1)
         + frequency_array[upto] * (frequency_array[upto] - 1)

\* A float quotient is kept as the pair <<numerator, denominator>>
calculate_IC(text) ==
    LET stripped == lower(remove_spaces(text))
        ct_len == Len(stripped)
        frequency_array == analyze_frequency(stripped)
        sum == sum_pairs(frequency_array, NUM_LETTERS)
    IN  IF ct_len = 0 THEN Value(<<0, 1>>)
        ELSE IF ct_len * (ct_len - 1) = 0 THEN ZeroDivisionError
        ELSE Value(<<sum, ct_len * (ct_len - 1)>>)

-----------------------------------------------------------------------------
(* SpecIC: calculate_IC applied to a text *)

MaxICLen == 4
\* ' ', '1', 'A', 'a', 'b'
ICChars == {32, 49, 65, 97, 98}

ICInit ==
    /\ pc = "start"
    /\ cipher_text \in Texts(ICChars, MaxICLen)
    /\ plain_text = <<>> /\ decrypted_text = <<>>
    /\ VigIdle /\ HillIdle /\ LoopIdle

ICCalculate ==
    /\ pc = "start"
    /\ ic' = calculate_IC(cipher_text)
    /\ pc' = "done"
    /\ UNCHANGED <<hillVars, loopVars, textVars, keyword, key_lengths, attackVars>>

ICNext == ICCalculate

SpecIC == ICInit /\ [][ICNext]_vars

\* The number of alphabetic symbols of a text
AlphaCount(text) ==
    Cardinality({p \in 1..Len(text) : text[p] \in (65..90) \cup (97..122)})

\* The occurrences of letter c (0..25), in either case
LetterCount(text, c) ==
    Cardinality({p \in 1..Len(text) : text[p] \in {65 + c, 97 + c}})

RECURSIVE PairSum(_, _)
PairSum(text, c) ==
    IF c < 0 THEN 0
    ELSE PairSum(text, c - 1) + LetterCount(text, c) * (LetterCount(text, c) - 1)

\* C9: for every text calculate_IC returns a value in [0,1], the sum of
\* n_i(n_i - 1) divided by N(N - 1) with N the number of alphabetic symbols,
\* returns 0 for the empty text and never divides by zero.
C9_ICBounds ==
    pc = "done" =>
        /\ ic.kind = "value"
        /\ ic.val[2] > 0 /\ 0 <= ic.val[1] /\ ic.val[1] <= ic.val[2]
        /\ cipher_text = <<>> => ic.val[1] = 0
        /\ LET n == AlphaCount(cipher_text)
           IN  n * (n - 1) > 0 =>
                 ic.val[1] * (n * (n - 1))
                    = PairSum(cipher_text, NUM_LETTERS - 1) * ic.val[2]

-----------------------------------------------------------------------------
(* vigenere.py: kasiski_test *)

\* str.count(sub): the occurrences of sub found from left to right, each
\* search starting behind the occurrence before it (no overlaps)
RECURSIVE count_from(_, _, _)
count_from(text, sub, at) ==
    IF at + Len(sub) > Len(text) THEN 0
    ELSE IF SubSeq(text, at + 1, at + Len(sub)) = sub
        THEN 1 + count_from(text, sub, at + Len(sub))
        ELSE count_from(text, sub, at + 1)

\* [s.start() for s in re.finditer(sub, text)], 0-based start positions
RECURSIVE finditer_from(_, _, _)
finditer_from(text, sub, at) ==
    IF at + Len(sub) > Len(text) THEN <<>>
    ELSE IF SubSeq(text, at + 1, at + Len(sub)) = sub
        THEN <<at>> \o finditer_from(text, sub, at + Len(sub))
        ELSE finditer_from(text, sub, at + 1)

\* The keys of substring_occur: cipher_text[i:l] for i in range(0, ct_len),
\* l in range(i + 3, ct_len), kept when it occurs twice or more
substring_occur(text) ==
    LET ct_len == Len(text)
    IN  {sub \in {SubSeq(text, a + 1, b) :
                     a \in 0 .. (ct_len - 1), b \in 0 .. (ct_len - 1)} :
            /\ Len(sub) >= 3
            /\ count_from(text, sub, 0) >= 2}

\* len(indices) / 2: Python 3's true division gives a float
indices_len(indices) == [float |-> TRUE, num |-> Len(indices), den |-> 2]

\* range(start, stop): a float argument raises TypeError
py_range(start, stop) ==
    IF stop.float THEN TypeError
    ELSE Value([x \in 1 .. (stop.num \div stop.den - start) |-> start + x - 1])

\* indices[at] with Python's negative indexing
py_index(indices, at) ==
    IF at < 0 THEN indices[Len(indices) + at + 1] ELSE indices[at + 1]

\* The distances one substring adds: indices[i - 1] - indices[i] for the i
\* of the range, or the exception range() raised
substring_distances(text, sub) ==
    LET indices == finditer_from(text, sub, 0)
        rng == py_range(0, indices_len(indices))
    IN  IF rng.kind # "value" THEN rng
        ELSE Value([x \in 1 .. Len(rng.val) |->
                py_index(indices, rng.val[x] - 1) - py_index(indices, rng.val[x])])

RECURSIVE all_distances(_, _)
all_distances(text, substrings) ==
    IF substrings = {} THEN <<>>
    ELSE LET sub == CHOOSE x \in substrings : TRUE
         IN  substring_distances(text, sub).val
                \o all_distances(text, substrings \ {sub})

Abs(x) == IF x < 0 THEN -x ELSE x

RECURSIVE math_gcd(_, _)
math_gcd(a, b) == IF b = 0 THEN Abs(a) ELSE math_gcd(b, a % Abs(b))

\* sorted(gcds)
RECURSIVE sorted(_)
sorted(set) ==
    IF set = {} THEN <<>>
    ELSE LET least == CHOOSE x \in set : \A y \in set : x <= y
         IN  <<least>> \o sorted(set \ {least})

\* The gcd of every two distances, those above 1 kept, in ascending order
kasiski_gcds(distances) ==
    sorted({r \in {math_gcd(distances[a], distances[b]) :
                      a \in 1 .. Len(distances), b \in 1 .. Len(distances)} :
              /\ r > 1
              /\ \E a \in 1 .. Len(distances) : \E b \in (a + 1) .. Len(distances) :
                    r = math_gcd(distances[a], distances[b])})

\* The first substring of the loop already ends the call with the TypeError
\* of range(); without a repeated substring the loop body never runs
kasiski_test(text) ==
    LET stripped == remove_spaces(text)
        substrings == substring_occur(stripped)
    IN  IF \E sub \in substrings :
                substring_distances(stripped, sub).kind = "TypeError"
            THEN TypeError
        ELSE LET gcds == kasiski_gcds(all_distances(stripped, substrings))
             IN  IF gcds = <<>> THEN None ELSE Value(gcds)

-----------------------------------------------------------------------------
(* SpecKasiski: kasiski_test applied to a cipher text *)

MaxKasLen == 7
MaxKasAffix == 1
\* 'a', 'b'
KasLetters == {97, 98}

\* Texts with a 4-letter substring at two start positions 10 apart
RepetitionTexts ==
    {pre \o u \o mid \o u \o post :
        pre \in Texts(KasLetters, MaxKasAffix),
        u \in Texts(KasLetters, 4) \ Texts(KasLetters, 3),
        mid \in Texts(KasLetters, 6) \ Texts(KasLetters, 5),
        post \in Texts(KasLetters, MaxKasAffix)}

KasiskiInit ==
    /\ pc = "start"
    /\ cipher_text \in Texts(KasLetters \cup {SPACE}, MaxKasLen) \cup RepetitionTexts
    /\ plain_text = <<>> /\ decrypted_text = <<>>
    /\ VigIdle /\ HillIdle /\ LoopIdle

KasiskiTest ==
    /\ pc = "start"
    /\ key_lengths' = kasiski_test(cipher_text)
    /\ pc' = "done"
    /\ UNCHANGED <<hillVars, loopVars, textVars, keyword, ic, attackVars>>

KasiskiNext == KasiskiTest

SpecKasiski == KasiskiInit /\ [][KasiskiNext]_vars

\* The text holds the same 4 characters at two start positions 10 apart
HasRepeatAt10(text) ==
    \E at \in 1 .. (Len(text) - 13) :
        SubSeq(text, at, at + 3) = SubSeq(text, at + 10, at + 13)

\* C10: for every cipher text with the same 4-character substring at two
\* start positions exactly 10 apart, kasiski_test returns a candidate set
\* (not None, no exception) that holds 10 or a divisor of 10 above 1.
C10_KasiskiOnRepetition ==
    (pc = "done" /\ HasRepeatAt10(cipher_text)) =>
        /\ key_lengths.kind = "value"
        /\ \E x \in 1 .. Len(key_lengths.val) : key_lengths.val[x] \in {2, 5, 10}

-----------------------------------------------------------------------------
(* SpecGcds: the gcd stage of kasiski_test (vigenere.py:232-260) applied to *)
(* a list of distances.  In kasiski_test as written the TypeError of        *)
(* range() ends the call before the first distance is appended, so the      *)
(* stage only ever runs on the empty list; this specification hands it the  *)
(* lists it is written for: differences of start indices of a substring of  *)
(* 3 or more characters, MinDistance or more apart, in either order.        *)

MaxDistances == 3
MaxDistance == 6
MinDistance == 3
DistanceValues ==
    {d \in (-MaxDistance) .. MaxDistance : Abs(d) >= MinDistance}

DistanceLists ==
    UNION {[1 .. n -> DistanceValues] : n \in 0 .. MaxDistances}

GcdsInit ==
    /\ pc = "start"
    /\ dists \in DistanceLists
    /\ keyword = <<>> /\ ic = None /\ key_lengths = None
    /\ r_est = None /\ probable_lengths = None /\ len_idx = 0 /\ sort = <<>>
    /\ TextIdle /\ HillIdle /\ LoopIdle

\* lines 232-260: gcds of the distances, sorted; None when there is none
GcdsReturn ==
    /\ pc = "start"
    /\ key_lengths' = (LET gcds == kasiski_gcds(dists)
                       IN  IF gcds = <<>> THEN None ELSE Value(gcds))
    /\ pc' = "done"
    /\ UNCHANGED <<hillVars, loopVars, textVars, keyword, ic,
                   dists, r_est, probable_lengths, len_idx, sort>>

GcdsNext == GcdsReturn

SpecGcds == GcdsInit /\ [][GcdsNext]_vars

-----------------------------------------------------------------------------
(* vigenere.py: brute_force, up to the loop over the probable key lengths *)

\* r = 0.027 * n / (((n - 1) * _IC) - (0.038 * n) + 0.065) with _IC the
\* quotient <<a, b>>: both sides of the division times 1000 * b.  The float r
\* is kept as the quotient <<numerator, denominator>>, denominator positive.
\* The denominator of the source is a multiple of 1 / (1000 * b), far above
\* the rounding error of a float, so its sign is the sign computed here.
_IC_test(n, _IC) ==
    LET num == 27 * n * _IC[2]
        den == 1000 * (n - 1) * _IC[1] - 38 * n * _IC[2] + 65 * _IC[2]
    IN  IF den = 0 THEN ZeroDivisionError
        ELSE IF den > 0 THEN Value(<<num, den>>)
        ELSE Value(<<-num, -den>>)

\* math.floor of a quotient: an int
math_floor(q) == q[1] \div q[2]

\* What probable_lengths is bound to: an int (line 366) or a list (line 372)
PyInt(x) == [kind |-> "int", val |-> <<x>>]
PyList(list) == [kind |-> "list", val |-> list]

\* for probable_len in probable_lengths: an int is not iterable
py_iter(obj) == IF obj.kind = "list" THEN Value(obj.val) ELSE TypeError

\* line 348: key_lengths = kasiski_test(cipher_text)
VigBruteKasiski ==
    /\ pc = "start"
    /\ key_lengths' = kasiski_test(cipher_text)
    /\ IF key_lengths'.kind = "TypeError"
          THEN found_key' = TypeError /\ pc' = "done"
          ELSE found_key' = found_key /\ pc' = "ic"
    /\ UNCHANGED <<hillVars, textVars, i, j, k, l, decrypts, keyword, ic,
                   dists, r_est, probable_lengths, len_idx, sort>>

\* lines 353-357: _IC = calculate_IC(cipher_text); r = _IC_test(ct_length, _IC)
VigBruteICTest ==
    /\ pc = "ic"
    /\ ic' = calculate_IC(cipher_text)
    /\ r_est' = IF ic'.kind = "value"
                   THEN _IC_test(Len(cipher_text), ic'.val) ELSE None
    /\ IF ic'.kind # "value" THEN found_key' = ic' /\ pc' = "done"
       ELSE IF r_est'.kind # "value" THEN found_key' = r_est' /\ pc' = "done"
       ELSE found_key' = found_key /\ pc' = "select"
    /\ UNCHANGED <<hillVars, textVars, i, j, k, l, decrypts, keyword,
                   key_lengths, dists, probable_lengths, len_idx, sort>>

\* lines 361-372: the estimate when kasiski_test gave None, else its list
VigBruteSelect ==
    /\ pc = "select"
    /\ IF key_lengths = None
          THEN IF r_est.val[1] > 0
                  THEN /\ probable_lengths' = PyInt(math_floor(r_est.val))
                       /\ found_key' = found_key
                       /\ pc' = "iterate"
                  ELSE /\ probable_lengths' = probable_lengths
                       /\ found_key' = None
                       /\ pc' = "done"
          ELSE /\ probable_lengths' = PyList(key_lengths.val)
               /\ found_key' = found_key
               /\ pc' = "iterate"
    /\ UNCHANGED <<hillVars, textVars, i, j, k, l, decrypts, keyword, ic,
                   key_lengths, dists, r_est, len_idx, sort>>

\* lines 374-377: found_key = None and the start of the for loop
VigBruteIterate ==
    /\ pc = "iterate"
    /\ IF py_iter(probable_lengths).kind = "TypeError"
          THEN found_key' = TypeError /\ pc' = "done"
          ELSE found_key' = None /\ pc' = "length"
    /\ len_idx' = 0
    /\ UNCHANGED <<hillVars, textVars, i, j, k, l, decrypts, keyword, ic,
                   key_lengths, dists, r_est, probable_lengths, sort>>

-----------------------------------------------------------------------------
(* vigenere.py: brute_force, the loop over the probable key lengths *)

\* 'etaoinshrdlcumwfgypbvkjxqz'
FREQ_ORDER ==
    <<101, 116, 97, 111, 105, 110, 115, 104, 114, 100, 108, 99, 117,
      109, 119, 102, 103, 121, 112, 98, 118, 107, 106, 120, 113, 122>>

\* probable_len of the running pass of the outer loop
probable_len == probable_lengths.val[len_idx]

\* ma_columns[column]: cipher_text[p] for the p with p % length = column
ma_column(text, length, column) ==
    LET size == Cardinality({p \in 0 .. (Len(text) - 1) : p % length = column})
    IN  [t \in 1 .. size |-> text[(t - 1) * length + column + 1]]

\* zip(freq, col): pairs of the entries at the same index, as many as the
\* shorter list has
py_zip(freq, col) ==
    [t \in 1 .. (IF Len(freq) < Len(col) THEN Len(freq) ELSE Len(col)) |->
        <<freq[t], col[t]>>]

\* Python's order of 2-tuples
tuple_less(a, b) == a[1] < b[1] \/ (a[1] = b[1] /\ a[2] < b[2])

\* sorted(pairs), todo being the indices not yet placed; equal tuples keep
\* their order
RECURSIVE sorted_zip(_, _)
sorted_zip(pairs, todo) ==
    IF todo = {} THEN <<>>
    ELSE LET least == CHOOSE t \in todo : \A u \in todo :
                        /\ ~tuple_less(pairs[u], pairs[t])
                        /\ (pairs[u] = pairs[t] => t <= u)
         IN  <<pairs[least]>> \o sorted_zip(pairs, todo \ {least})

\* [x for _, x in sorted(zip(freq, col))] with freq the 26 counts of
\* analyze_frequency(col)
sorted_by_freq(col) ==
    LET pairs == py_zip(analyze_frequency(col), col)
        ordered == sorted_zip(pairs, 1 .. Len(pairs))
    IN  [t \in 1 .. Len(ordered) |-> ordered[t][2]]

\* lines 420-428: key_char for the letter FREQ_ORDER[j]
brute_key_char(letter) ==
    LET sort_char == sort[2] - ASCII_OFFSET
        f_char == FREQ_ORDER[letter + 1] - ASCII_OFFSET
        shift == mod_26(sort_char - f_char)
    IN  shift + ASCII_OFFSET

\* col of the running pass of the loop over the columns
col == ma_column(cipher_text, probable_len, i)

\* lines 406-416: the loop counters after one pass of the innermost loop:
\* the next letter, the next column (sorted), or the end of the columns
VigBruteAdvance ==
    IF j + 1 < NUM_LETTERS
        THEN i' = i /\ j' = j + 1 /\ sort' = sort /\ pc' = "try"
    ELSE IF i + 1 < probable_len
        THEN /\ i' = i + 1 /\ j' = 0 /\ pc' = "try"
             /\ sort' = sorted_by_freq(ma_column(cipher_text, probable_len, i + 1))
    ELSE i' = i /\ j' = j /\ sort' = sort /\ pc' = "length"

\* lines 377-414: the next probable_len, found_key = "", the columns, k = 1,
\* the first column sorted
VigBruteLength ==
    /\ pc = "length"
    /\ len_idx < Len(probable_lengths.val)
    /\ len_idx' = len_idx + 1
    /\ k' = 1
    /\ LET length == probable_lengths.val[len_idx + 1]
       IN  \* j = i % probable_len divides by zero; without a character
           \* and without a column the pass is over at once
           IF length = 0
              THEN /\ IF Len(cipher_text) > 0
                         THEN found_key' = ZeroDivisionError /\ pc' = "done"
                         ELSE found_key' = Value(<<>>) /\ pc' = "length"
                   /\ sort' = sort
              ELSE /\ found_key' = Value(<<>>) /\ pc' = "try"
                   /\ sort' = sorted_by_freq(ma_column(cipher_text, length, 0))
    /\ i' = 0 /\ j' = 0
    /\ UNCHANGED <<hillVars, textVars, l, decrypts, keyword, ic,
                   key_lengths, dists, r_est, probable_lengths>>

\* line 420: sort[1] on a list of fewer than 2 entries
VigBruteAnchorError ==
    /\ pc = "try"
    /\ Len(sort) < 2
    /\ found_key' = IndexError /\ pc' = "done"
    /\ UNCHANGED <<hillVars, textVars, i, j, k, l, decrypts, vigVars>>

\* lines 432-437: cipher_text[k] or plain_text[k] past the end
VigBruteIndexError ==
    /\ pc = "try"
    /\ Len(sort) >= 2
    /\ k >= Len(cipher_text) \/ k >= Len(plain_text)
    /\ found_key' = IndexError /\ pc' = "done"
    /\ UNCHANGED <<hillVars, textVars, i, j, k, l, decrypts, vigVars>>

\* decrypt(cipher_text[k], key_char) == str(plain_text[k])
brute_validated(key) ==
    vigenere_decrypt(<<cipher_text[k + 1]>>, <<key>>) = <<plain_text[k + 1]>>

\* lines 437-447: the key character is appended; the key is returned when it
\* is as long as the cipher text, else k moves on
VigBruteMatch ==
    /\ pc = "try"
    /\ Len(sort) >= 2
    /\ k < Len(cipher_text) /\ k < Len(plain_text)
    /\ LET key == brute_key_char(j)
       IN  /\ brute_validated(key)
           /\ found_key' = Value(Append(found_key.val, key))
    /\ IF Len(found_key'.val) = Len(cipher_text)
          THEN pc' = "done" /\ UNCHANGED <<i, j, k, sort>>
          ELSE k' = k + 1 /\ VigBruteAdvance
    /\ UNCHANGED <<hillVars, textVars, l, decrypts, keyword, ic, key_lengths,
                   dists, r_est, probable_lengths, len_idx>>

\* line 437: the comparison fails
VigBruteMismatch ==
    /\ pc = "try"
    /\ Len(sort) >= 2
    /\ k < Len(cipher_text) /\ k < Len(plain_text)
    /\ ~brute_validated(brute_key_char(j))
    /\ VigBruteAdvance
    /\ UNCHANGED <<hillVars, textVars, k, l, decrypts, found_key, keyword, ic,
                   key_lengths, dists, r_est, probable_lengths, len_idx>>

\* lines 450-455: the loop is over; len(None) raises TypeError
VigBruteReturn ==
    /\ pc = "length"
    /\ len_idx = Len(probable_lengths.val)
    /\ found_key' = IF found_key.kind # "value" THEN TypeError
                    ELSE IF Len(found_key.val) > 0 THEN found_key
                    ELSE None
    /\ pc' = "done"
    /\ UNCHANGED <<hillVars, textVars, i, j, k, l, decrypts, vigVars>>

-----------------------------------------------------------------------------
(* SpecVigBrute: brute_force called on a cipher text and its plain text *)

MaxAttackLen == 7
\* 'a', 'b'
AttackChars == {97, 98}
\* "a", "b", "ab"
AttackKeywords == {<<97>>, <<98>>, <<97, 98>>}

VigBruteInit ==
    /\ pc = "start"
    /\ plain_text \in Texts(AttackChars, MaxAttackLen)
    /\ keyword \in AttackKeywords
    /\ cipher_text = vigenere_encrypt(plain_text, keyword)
    /\ decrypted_text = <<>>
    /\ ic = None /\ key_lengths = None /\ AttackIdle
    /\ HillIdle /\ LoopIdle

VigBruteNext ==
    VigBruteKasiski \/ VigBruteICTest \/ VigBruteSelect \/ VigBruteIterate

SpecVigBrute == VigBruteInit /\ [][VigBruteNext]_vars

\* The analysis of lines 345-357 returned: no exception of kasiski_test,
\* calculate_IC or _IC_test, and the selection of lines 361-377 is over
Selected ==
    /\ pc \notin {"start", "ic", "select", "iterate"}
    /\ key_lengths.kind # "TypeError"
    /\ ic.kind = "value"
    /\ r_est.kind = "value"

\* C12: when kasiski_test yields no candidates, brute_force goes on with the
\* single candidate floor(r) if the estimate r is positive and returns None
\* without a column processed if r is not positive; when kasiski_test yields
\* candidates, these are the candidates; the step never raises.
C12_KeyLengthFallback ==
    Selected =>
        /\ (pc = "done" /\ len_idx = 0) => found_key = None
        /\ (key_lengths = None /\ r_est.val[1] > 0) =>
              py_iter(probable_lengths) = Value(<<math_floor(r_est.val)>>)
        /\ (key_lengths = None /\ r_est.val[1] <= 0) =>
              pc = "done" /\ found_key = None /\ len_idx = 0
        /\ key_lengths.kind = "value" =>
              py_iter(probable_lengths) = Value(key_lengths.val)

-----------------------------------------------------------------------------
(* SpecVigColumns: brute_force from line 361 on, with a list of candidate   *)
(* lengths in key_lengths.  brute_force as written never gets here with a   *)
(* list: kasiski_test returns None or raises, and the estimate of line 366  *)
(* is an int.  This specification starts where kasiski_test has returned a  *)
(* list of the shape its last lines build (ascending, every value above 1   *)
(* and, as a divisor of a distance, at most the length of the text less     *)
(* MinDistance) and calculate_IC and _IC_test have returned their values.    *)

MaxColumnsLen == 7
MaxCandidates == 2

\* sorted(gcds) of the sets of up to MaxCandidates gcds of 2 .. top
CandidateLists(top) ==
    {sorted(gcds) : gcds \in {set \in SUBSET (2 .. top) :
                                set # {} /\ Cardinality(set) <= MaxCandidates}}

VigColumnsInit ==
    /\ pc = "select"
    /\ plain_text \in Texts(AttackChars, MaxColumnsLen)
    /\ keyword \in AttackKeywords
    /\ cipher_text = vigenere_encrypt(plain_text, keyword)
    /\ decrypted_text = <<>>
    /\ \E list \in CandidateLists(Len(cipher_text) - MinDistance) :
          key_lengths = Value(list)
    /\ ic = calculate_IC(cipher_text)
    /\ r_est = _IC_test(Len(cipher_text), ic.val)
    /\ dists = <<>> /\ probable_lengths = None /\ len_idx = 0 /\ sort = <<>>
    /\ HillIdle /\ LoopIdle

VigColumnsNext ==
    \/ VigBruteSelect
    \/ VigBruteIterate
    \/ VigBruteLength
    \/ VigBruteAnchorError
    \/ VigBruteIndexError
    \/ VigBruteMatch
    \/ VigBruteMismatch
    \/ VigBruteReturn

SpecVigColumns == VigColumnsInit /\ [][VigColumnsNext]_vars

-----------------------------------------------------------------------------
(* Properties of brute_force *)

\* C13: brute_force stops and returns the running key as soon as the key is
\* as long as the cipher text; otherwise, the columns of every candidate
\* length done, it returns the partial key if that is not empty and None if
\* it is empty.  A returned key is never longer than the cipher text.
C13_Termination ==
    /\ pc = "done" =>
          /\ found_key.kind \in {"value", "None"}
          /\ found_key.kind = "value" =>
                Len(found_key.val) \in 1 .. Len(cipher_text)
    /\ pc = "try" => Len(found_key.val) < Len(cipher_text)

\* The character the step appends to found_key
Appended == found_key'.val[Len(found_key'.val)]

\* C14: every key character appended while column i of candidate length
\* probable_len is processed was validated at a position of that column (a
\* position congruent to i mod probable_len): decrypting the cipher text
\* symbol at the position with the character gives the plain text symbol at
\* the position.
C14_Step ==
    (pc = "try" /\ found_key'.kind = "value"
                /\ Len(found_key'.val) = Len(found_key.val) + 1) =>
        /\ k % probable_len = i
        /\ k < Len(cipher_text)
        /\ brute_validated(Appended)

Occurrences(column, ch) ==
    Cardinality({p \in 1 .. Len(column) : column[p] = ch})

\* The characters of a column that occur a given number of times, in the
\* order of the list
WithCount(list, column, count) ==
    LET Test(ch) == Occurrences(column, ch) = count
    IN  SelectSeq(list, Test)

====
